---- MODULE Spec2Model ----
(***************************************************************************)
(* Model of the EVD line-reassembly parser (src/pdf_parser.py): the text   *)
(* functions normalize_line, split_into_segments, parse_segment and        *)
(* parse_articles, load_and_flatten, and the part of the submit handler    *)
(* that calls them (src/main.py, lines 61 to 68).                          *)
(*                                                                         *)
(* A Python str is a sequence of one-character strings.  A dict is a       *)
(* sequence of <<key, value>> pairs with unique keys, in insertion order.  *)
(* Indices named as in the source (i, idx, start, end) are 0-based as in   *)
(* the source; element k of a Python sequence s is s[k + 1] here.          *)
(***************************************************************************)
EXTENDS Integers, Sequences, FiniteSets, TLC

\* ------------------------------------------------------------------------
\* Characters
\* ------------------------------------------------------------------------
LowerLetters ==
    <<"a","b","c","d","e","f","g","h","i","j","k","l","m",
      "n","o","p","q","r","s","t","u","v","w","x","y","z">>

UpperLetters ==
    <<"A","B","C","D","E","F","G","H","I","J","K","L","M",
      "N","O","P","Q","R","S","T","U","V","W","X","Y","Z">>

Digits == {"0","1","2","3","4","5","6","7","8","9"}

\* str.isspace / regex \s, restricted to the characters of the model
Whitespace == {" ", "\t", "\n", "\r", "\f"}

\* the line boundaries of str.splitlines, restricted likewise
LineBoundaries == {"\n", "\r", "\f"}

IsSpace(c) == c \in Whitespace

IsDigit(c) == c \in Digits

\* [A-Za-z]
IsAsciiLetter(c) ==
    \E k \in 1..26 : c = LowerLetters[k] \/ c = UpperLetters[k]

\* regex \w
IsWord(c) == IsAsciiLetter(c) \/ IsDigit(c) \/ c \in {"_", "Ü", "ü"}

\* str.upper on one character
Upper(c) ==
    IF \E k \in 1..26 : c = LowerLetters[k]
    THEN UpperLetters[CHOOSE k \in 1..26 : c = LowerLetters[k]]
    ELSE IF c = "ü" THEN "Ü" ELSE c

\* str.lower on one character
Lower(c) ==
    IF \E k \in 1..26 : c = UpperLetters[k]
    THEN LowerLetters[CHOOSE k \in 1..26 : c = UpperLetters[k]]
    ELSE IF c = "Ü" THEN "ü" ELSE c

\* ------------------------------------------------------------------------
\* Strings
\* ------------------------------------------------------------------------
SetMin(S) == CHOOSE m \in S : \A n \in S : m <= n

SetMax(S) == CHOOSE m \in S : \A n \in S : n <= m

UpperStr(s) == [k \in 1..Len(s) |-> Upper(s[k])]

LowerStr(s) == [k \in 1..Len(s) |-> Lower(s[k])]

\* s.startswith(p)
StartsWith(s, p) == Len(s) >= Len(p) /\ SubSeq(s, 1, Len(p)) = p

\* s.strip()
Strip(s) ==
    LET keep == {k \in 1..Len(s) : ~IsSpace(s[k])}
    IN  IF keep = {} THEN <<>> ELSE SubSeq(s, SetMin(keep), SetMax(keep))

\* StripQuotes that removes one quote character at most from each end
StripOneQuote(s) ==
    LET a == IF s # <<>> /\ s[1] = "\"" THEN 2 ELSE 1
        b == IF Len(s) >= a /\ s[Len(s)] = "\"" THEN Len(s) - 1 ELSE Len(s)
    IN  SubSeq(s, a, b)

\* s.strip('"')
StripQuotes(s) ==
    LET keep == {k \in 1..Len(s) : s[k] # "\""}
    IN  IF keep = {} THEN <<>> ELSE SubSeq(s, SetMin(keep), SetMax(keep))

\* s.replace('\r', '\n')
ReplaceCR(s) == [k \in 1..Len(s) |-> IF s[k] = "\r" THEN "\n" ELSE s[k]]

\* s.splitlines()
RECURSIVE SplitLines(_)
SplitLines(s) ==
    IF s = <<>> THEN <<>>
    ELSE LET brk == {k \in 1..Len(s) : s[k] \in LineBoundaries}
         IN  IF brk = {} THEN <<s>>
             ELSE <<SubSeq(s, 1, SetMin(brk) - 1)>>
                  \o SplitLines(SubSeq(s, SetMin(brk) + 1, Len(s)))

\* first 1-based position q >= p that holds no whitespace (Len(s)+1 if none)
SkipSpace(s, p) ==
    SetMin({q \in p..(Len(s) + 1) : q > Len(s) \/ ~IsSpace(s[q])})

\* first 1-based position q >= p that holds no digit (Len(s)+1 if none)
SkipDigits(s, p) ==
    SetMin({q \in p..(Len(s) + 1) : q > Len(s) \/ ~IsDigit(s[q])})

\* regex \b after a word character that ends at 1-based position p - 1
WordBoundaryAt(s, p) == IF p > Len(s) THEN TRUE ELSE ~IsWord(s[p])

\* ------------------------------------------------------------------------
\* Regular expressions
\* ------------------------------------------------------------------------
HeaderLiteral ==
    <<"1","7"," ","P","O","S","I","T","I","O","N","S","D","A","T","E","N">>

PackWords ==
    { <<"P","A","C","K","S","T","Ü","C","K","E">>,
      <<"P","A","C","K","S","T","U","C","K","E">> }

\* 1-based position after '17(?:\.\d+)?' matched at the start of s; 0 if '17'
\* does not match
NumberEnd(s) ==
    IF ~StartsWith(s, <<"1","7">>) THEN 0
    ELSE IF Len(s) >= 4 /\ s[3] = "." /\ IsDigit(s[4]) THEN SkipDigits(s, 4)
    ELSE 3

\* length of group 1 of KEY_RE, the code; 0 if the line is no key line
KEY_RE_code_len(line) ==
    LET n == NumberEnd(line)
    IN  IF n = 0 \/ n > Len(line) \/ ~IsAsciiLetter(line[n]) THEN 0
        ELSE IF n = Len(line) \/ IsSpace(line[n + 1]) THEN n
        ELSE 0

\* KEY_RE.match(line) is not None
KEY_RE_match(line) == KEY_RE_code_len(line) > 0

\* m.group(1)
KEY_RE_group1(line) == SubSeq(line, 1, KEY_RE_code_len(line))

\* m.group(2), with None as the empty string
KEY_RE_group2(line) ==
    LET n == KEY_RE_code_len(line)
    IN  IF n = Len(line) THEN <<>>
        ELSE SubSeq(line, SkipSpace(line, n + 1), Len(line))

\* PACK_HEADER_RE.match(line) is not None
PACK_HEADER_RE_match(line) ==
    LET n == NumberEnd(line)
        q == SkipSpace(line, n)
    IN  /\ n > 0
        /\ n <= Len(line)
        /\ IsSpace(line[n])
        /\ q + 9 <= Len(line)
        /\ UpperStr(SubSeq(line, q, q + 9)) \in PackWords
        /\ WordBoundaryAt(line, q + 10)

\* 1-based position after a match of '\s*"?\s*17 POSITIONSDATEN\b' that starts
\* at 1-based position p of s; 0 if there is no match at p
HeaderEndAt(s, p) ==
    LET q1 == SkipSpace(s, p)
        q2 == IF q1 <= Len(s) /\ s[q1] = "\"" THEN SkipSpace(s, q1 + 1) ELSE q1
        e  == q2 + Len(HeaderLiteral)
    IN  IF /\ e - 1 <= Len(s)
           /\ UpperStr(SubSeq(s, q2, e - 1)) = HeaderLiteral
           /\ WordBoundaryAt(s, e)
        THEN e ELSE 0

\* (?m)^ at 1-based position p
LineStartAt(s, p) == IF p = 1 THEN TRUE ELSE s[p - 1] = "\n"

\* SEGMENT_HEADER_RE.match(line) is not None
SEGMENT_HEADER_RE_match(line) == HeaderEndAt(line, 1) > 0

\* [m.start() for m in SEGMENT_HEADER_RE.finditer(raw_text)], searching from
\* the 1-based position from; the starts are 0-based as in the source
RECURSIVE SEGMENT_HEADER_RE_finditer(_, _)
SEGMENT_HEADER_RE_finditer(s, from) ==
    LET hits == {p \in from..Len(s) : LineStartAt(s, p) /\ HeaderEndAt(s, p) > 0}
    IN  IF hits = {} THEN <<>>
        ELSE <<SetMin(hits) - 1>>
             \o SEGMENT_HEADER_RE_finditer(s, HeaderEndAt(s, SetMin(hits)))

\* ------------------------------------------------------------------------
\* normalize_line, split_into_segments
\* ------------------------------------------------------------------------
\* normalize_line without the last strip()
normalize_line_unstripped(s) == StripQuotes(Strip(s))

\* s.strip().strip('"').strip()
normalize_line(s) == Strip(StripQuotes(Strip(s)))

\* SegmentEnd with the final segment cut one character short
SegmentEndShort(starts, idx, raw) ==
    IF idx + 1 < Len(starts) THEN starts[idx + 2] ELSE Len(raw) - 1

\* the end of segment idx: the next start, or len(raw_text)
SegmentEnd(starts, idx, raw) ==
    IF idx + 1 < Len(starts) THEN starts[idx + 2] ELSE Len(raw)

\* SegmentStart with the first segment taken from the top of the text
SegmentStartFromTop(starts, idx) == IF idx = 0 THEN 0 ELSE starts[idx + 1]

\* start = starts[idx]
SegmentStart(starts, idx) == starts[idx + 1]

split_into_segments(raw) ==
    LET starts == SEGMENT_HEADER_RE_finditer(raw, 1)
    IN  [k \in 1..Len(starts) |->
            SubSeq(raw, SegmentStart(starts, k - 1) + 1,
                   SegmentEnd(starts, k - 1, raw))]

\* ------------------------------------------------------------------------
\* dict
\* ------------------------------------------------------------------------
DictKeys(d) == {d[k][1] : k \in DOMAIN d}

\* d[key]
DictGet(d, key) == d[CHOOSE k \in DOMAIN d : d[k][1] = key][2]

\* d[key] = val
DictSet(d, key, val) ==
    IF key \in DictKeys(d)
    THEN [k \in DOMAIN d |-> IF d[k][1] = key THEN <<key, val>> ELSE d[k]]
    ELSE Append(d, <<key, val>>)

\* ------------------------------------------------------------------------
\* parse_segment: the pieces of its body
\* ------------------------------------------------------------------------
MAIN == "POSITIONSDATEN e-VD/v-e-VD"

PACK == "PACKSTÜCKE"

UNMAPPED == "_UNMAPPED_VALUES"

\* the normalized, non-empty lines of the segment
SegmentLines(segment) ==
    LET raw  == SplitLines(ReplaceCR(segment))
        norm == [k \in 1..Len(raw) |-> normalize_line(raw[k])]
    IN  SelectSeq(norm, LAMBDA l : l # <<>>)

\* drop initial header line if present
DropHeader(ls) ==
    IF ls # <<>> /\ StartsWith(UpperStr(ls[1]), HeaderLiteral)
    THEN Tail(ls) ELSE ls

\* label: the text after the code, or the code if the label is missing
KeyLabel(line) ==
    LET g2 == Strip(KEY_RE_group2(line))
    IN  IF g2 # <<>> THEN g2 ELSE KEY_RE_group1(line)

\* (code, label)
KeyToken(line) == <<KEY_RE_group1(line), KeyLabel(line)>>

\* IsValueLine that lets a sub-section header line through
IsValueLineOrPackHeader(line) ==
    /\ ~KEY_RE_match(line)
    /\ ~SEGMENT_HEADER_RE_match(line)

\* the condition of the two value-collecting loops
IsValueLine(line) ==
    /\ ~KEY_RE_match(line)
    /\ ~SEGMENT_HEADER_RE_match(line)
    /\ ~PACK_HEADER_RE_match(line)

\* the cursor after the run of key lines that starts at cursor j0
KeyRunEnd(ls, j0) ==
    SetMin({j \in j0..Len(ls) : j = Len(ls) \/ ~KEY_RE_match(ls[j + 1])})

\* the cursor after the run of value lines that starts at cursor j0
ValueRunEnd(ls, j0) ==
    SetMin({j \in j0..Len(ls) : j = Len(ls) \/ ~IsValueLine(ls[j + 1])})

\* IsPackCode with equality in place of startswith
IsPackCodeExact(code) == LowerStr(code) = <<"1","7",".","1">>

\* code.lower().startswith("17.1")
IsPackCode(code) == StartsWith(LowerStr(code), <<"1","7",".","1">>)

\* ValuesAvailable with the group's own values ahead of the pending ones
ValuesAvailableNewFirst(pv, vg) == vg \o pv

\* values_available = pending_values + val_group
ValuesAvailable(pv, vg) == pv \o vg

\* ValueFor that repeats the last value instead of padding
ValueForRepeat(va, idx) ==
    IF idx < Len(va) THEN va[idx + 1]
    ELSE IF va # <<>> THEN va[Len(va)] ELSE <<>>

\* the value of key idx: values_available[idx], or "" when they ran out
ValueFor(va, idx) == IF idx < Len(va) THEN va[idx + 1] ELSE <<>>

\* Leftover that skips one value too many
LeftoverSkipOne(va, kg) == SubSeq(va, Len(kg) + 2, Len(va))

\* leftover values remain pending for the next key group
Leftover(va, kg) == SubSeq(va, Len(kg) + 1, Len(va))

\* AssignKeys that stops at the last available value, as zip() would
RECURSIVE AssignKeysZip(_, _, _, _)
AssignKeysZip(maps, kg, va, idx) ==
    IF idx >= Len(kg) \/ idx >= Len(va) THEN maps
    ELSE LET code  == kg[idx + 1][1]
             label == kg[idx + 1][2]
             val   == va[idx + 1]
         IN  AssignKeysZip(
                 IF IsPackCode(code)
                 THEN [maps EXCEPT !.pack_mapping = DictSet(@, label, val)]
                 ELSE [maps EXCEPT !.mapping = DictSet(@, label, val)],
                 kg, va, idx + 1)

\* the for loop that maps keys to values, from key idx on
RECURSIVE AssignKeys(_, _, _, _)
AssignKeys(maps, kg, va, idx) ==
    IF idx >= Len(kg) THEN maps
    ELSE LET code  == kg[idx + 1][1]
             label == kg[idx + 1][2]
             val   == ValueFor(va, idx)
         IN  AssignKeys(
                 IF IsPackCode(code)
                 THEN [maps EXCEPT !.pack_mapping = DictSet(@, label, val)]
                 ELSE [maps EXCEPT !.mapping = DictSet(@, label, val)],
                 kg, va, idx + 1)

\* MapGroup that gives the first leftover value to the first label of
\* main that an earlier group left empty
MapGroupBackfill(maps, kg, va) ==
    LET m       == AssignKeys(maps, kg, va, 0)
        left    == Leftover(va, kg)
        empties == {k \in DOMAIN m.mapping : m.mapping[k][2] = <<>>}
    IN  IF left = <<>> \/ empties = {} THEN m
        ELSE [m EXCEPT !.mapping[SetMin(empties)] = <<@[1], left[1]>>]

\* for idx, (code, label) in enumerate(key_group): ...
MapGroup(maps, kg, va) == AssignKeys(maps, kg, va, 0)

\* ArticleObj with the unmapped entry also when nothing is pending
ArticleObjAlways(m, pm, pv) ==
    LET a1 == (MAIN :> m)
        a2 == IF pm # <<>> THEN a1 @@ (PACK :> pm) ELSE a1
    IN  a2 @@ (UNMAPPED :> pv)

\* article_obj
ArticleObj(m, pm, pv) ==
    LET a1 == (MAIN :> m)
        a2 == IF pm # <<>> THEN a1 @@ (PACK :> pm) ELSE a1
    IN  IF pv # <<>> THEN a2 @@ (UNMAPPED :> pv) ELSE a2

\* the while loop run to its end from the locals st; hangs is set when an
\* iteration leaves the locals as they were, which repeats forever
RECURSIVE WhileLoop(_)
WhileLoop(st) ==
    IF st.i >= Len(st.lines) THEN st
    ELSE IF PACK_HEADER_RE_match(st.lines[st.i + 1])
    THEN WhileLoop([st EXCEPT !.i = @ + 1])
    ELSE IF ~KEY_RE_match(st.lines[st.i + 1])
    THEN LET e == ValueRunEnd(st.lines, st.i)
         IN  IF e = st.i THEN [st EXCEPT !.hangs = TRUE]
             ELSE WhileLoop([st EXCEPT
                     !.pending_values = @ \o SubSeq(st.lines, st.i + 1, e),
                     !.i = e])
    ELSE LET j    == KeyRunEnd(st.lines, st.i)
             e    == ValueRunEnd(st.lines, j)
             kg   == [k \in 1..(j - st.i) |-> KeyToken(st.lines[st.i + k])]
             va   == ValuesAvailable(st.pending_values,
                                     SubSeq(st.lines, j + 1, e))
             maps == MapGroup([mapping |-> st.mapping,
                               pack_mapping |-> st.pack_mapping], kg, va)
         IN  WhileLoop([st EXCEPT
                 !.mapping = maps.mapping,
                 !.pack_mapping = maps.pack_mapping,
                 !.pending_values = Leftover(va, kg),
                 !.i = e])

\* what a call that never returns is shown as
NoReturn == ("no return" :> <<>>)

\* parse_segment as a function of its argument alone
parse_segment(segment) ==
    LET st == WhileLoop([lines |-> DropHeader(SegmentLines(segment)), i |-> 0,
                         mapping |-> <<>>, pack_mapping |-> <<>>,
                         pending_values |-> <<>>, hangs |-> FALSE])
    IN  IF st.hangs THEN NoReturn
        ELSE ArticleObj(st.mapping, st.pack_mapping, st.pending_values)

\* ------------------------------------------------------------------------
\* load_and_flatten
\* ------------------------------------------------------------------------
SectionOrder == <<MAIN, PACK, UNMAPPED>>

\* the names of record.values(), in insertion order
RecordSections(record) ==
    SelectSeq(SectionOrder, LAMBDA n : n \in DOMAIN record)

\* section_dict.items() raises AttributeError on a list
HasListSection(record) == UNMAPPED \in DOMAIN record

\* flat_record[key] = value, for the items of one section from item k on
RECURSIVE FlatSection(_, _, _)
FlatSection(flat, section, k) ==
    IF k > Len(section) THEN flat
    ELSE FlatSection(DictSet(flat, section[k][1], section[k][2]), section, k + 1)

\* FlatRecord that visits the sections in reverse order, packages first
RECURSIVE FlatRecordReversed(_, _, _)
FlatRecordReversed(flat, record, n) ==
    LET names == RecordSections(record)
    IN  IF n > Len(names) THEN flat
        ELSE FlatRecordReversed(
                 FlatSection(flat, record[names[Len(names) - n + 1]], 1),
                 record, n + 1)

\* the inner loops over record.values(), from section n on
RECURSIVE FlatRecord(_, _, _)
FlatRecord(flat, record, n) ==
    LET names == RecordSections(record)
    IN  IF n > Len(names) THEN flat
        ELSE FlatRecord(FlatSection(flat, record[names[n]], 1), record, n + 1)

\* the column labels of pd.DataFrame(flat_records), in first-seen order
RECURSIVE Columns(_, _, _)
Columns(cols, rows, r) ==
    IF r > Len(rows) THEN cols
    ELSE LET new == SelectSeq([k \in 1..Len(rows[r]) |-> rows[r][k][1]],
                              LAMBDA c : \A j \in 1..Len(cols) : cols[j] # c)
         IN  Columns(cols \o new, rows, r + 1)

\* load_and_flatten that takes the columns from the first row only
load_and_flatten_first(recs) ==
    LET flat_records == [r \in 1..Len(recs) |-> FlatRecord(<<>>, recs[r], 1)]
    IN  [columns |-> Columns(<<>>, SubSeq(flat_records, 1, 1), 1),
         rows |-> flat_records]

\* the DataFrame: its column labels and its rows
load_and_flatten(recs) ==
    LET flat_records == [r \in 1..Len(recs) |-> FlatRecord(<<>>, recs[r], 1)]
    IN  [columns |-> Columns(<<>>, flat_records, 1), rows |-> flat_records]

\* load_and_flatten raises instead of returning
load_and_flatten_raises(recs) == \E r \in 1..Len(recs) : HasListSection(recs[r])

\* {k: v for k, v in d.items() if k != "_UNMAPPED_VALUES"}
CleanRecord(d) == [n \in DOMAIN d \ {UNMAPPED} |-> d[n]]

\* no DataFrame: clean_df = None, df_to_show = None
NoTable == [columns |-> <<>>, rows |-> <<>>]

\* ------------------------------------------------------------------------
\* Inputs
\* ------------------------------------------------------------------------
MaxLines == 4

MaxSegLines == 5

MaxPieces == 5

LineH  == HeaderLiteral

LineHQ == <<"\"", "\"">> \o HeaderLiteral

LineP  == <<"1","7",".","1"," ","P","A","C","K","S","T","Ü","C","K","E">>

LineK1 == <<"1","7","a"," ","A">>

LineK2 == <<"1","7","b">>

LineK3 == <<"1","7",".","1","a"," ","A">>

LineX  == <<"x">>

LineY  == <<"y">>

HeaderLower ==
    <<"1","7"," ","p","o","s","i","t","i","o","n","s","d","a","t","e","n">>

LineB  == <<"1","7",".","1">>

LineBT == <<"1","7",".","1"," ","z">>

Mengeneinheit == <<"M","e","n","g","e","n","e","i","n","h","e","i","t">>

MaxMarkerLines == 4

MaxNormPieces == 7

MaxFlattenLines == 2

MaxRecords == 2

ArticleLines == {LineH, LineHQ, LineP, LineK1, LineK2, LineK3, LineX}

SegmentVocab == {LineP, LineK1, LineK2, LineK3, LineX, LineY}

Pieces == {HeaderLiteral, HeaderLower, <<"\n">>, <<"\r">>, <<" ">>, <<"\"">>, <<"x">>}

\* the concatenation of the pieces, each followed by sep
RECURSIVE Join(_, _)
Join(ps, sep) ==
    IF ps = <<>> THEN <<>> ELSE ps[1] \o sep \o Join(Tail(ps), sep)

SeqsUpTo(S, n) == UNION {[1..k -> S] : k \in 0..n}

ArticleTexts == {Join(ls, <<"\n">>) : ls \in SeqsUpTo(ArticleLines, MaxLines)}

SegmentTexts == {Join(ls, <<"\n">>) : ls \in SeqsUpTo(SegmentVocab, MaxSegLines)}

SplitTexts == {Join(ps, <<>>) : ps \in SeqsUpTo(Pieces, MaxPieces)}

MarkerVocab == {LineB, LineBT, LineP, LineK1, LineX}

MarkerTexts == {Join(ls, <<"\n">>) : ls \in SeqsUpTo(MarkerVocab, MaxMarkerLines)}

FlattenVocab == {LineK1, LineK2, LineK3, LineX}

\* the Records parse_segment returns for the segments of FlattenVocab
FlattenRecords ==
    {parse_segment(Join(ls, <<"\n">>)) : ls \in SeqsUpTo(FlattenVocab, MaxFlattenLines)}

NormPieces == {<<" ">>, <<"\"">>, <<"x">>, Mengeneinheit}

NormTexts == {Join(ps, <<>>) : ps \in SeqsUpTo(NormPieces, MaxNormPieces)}

\* ------------------------------------------------------------------------
\* State
\* ------------------------------------------------------------------------
VARIABLES
    call,               \* the function that was called
    raw_text,           \* its argument
    pc,                 \* "call", "segments", "loop", "returned", "cleaned",
                        \* "flattened", "raised"
    segments,           \* parse_articles: segments
    seg_idx,            \* parse_articles: segments already parsed (0-based cursor)
    lines,              \* parse_segment: lines
    i,                  \* parse_segment: i
    mapping,            \* parse_segment: mapping
    pack_mapping,       \* parse_segment: pack_mapping
    pending_values,     \* parse_segment: pending_values
    key_group,          \* parse_segment: key_group
    val_group,          \* parse_segment: val_group
    values_available,   \* parse_segment: values_available
    iter,               \* parse_segment: iterations of the while loop so far,
                        \* counted up to len(lines) + 1
    history,            \* parse_segment: the key groups mapped so far, each
                        \* with its key_group and its values_available
    records,            \* the Records returned so far
    err,                \* the exception raised, "" if none
    table,              \* the DataFrame of load_and_flatten
    normalized,         \* normalize_line: the values returned so far
    df_to_show          \* the handler: st.session_state.df_to_show

vars == <<call, raw_text, pc, segments, seg_idx, lines, i, mapping,
          pack_mapping, pending_values, key_group, val_group,
          values_available, iter, history, records, err, table, normalized,
          df_to_show>>

locals == <<lines, i, mapping, pack_mapping, pending_values, key_group,
            val_group, values_available, iter, history>>

InitCommon ==
    /\ pc = "call"
    /\ segments = <<>>
    /\ seg_idx = 0
    /\ lines = <<>>
    /\ i = 0
    /\ mapping = <<>>
    /\ pack_mapping = <<>>
    /\ pending_values = <<>>
    /\ key_group = <<>>
    /\ val_group = <<>>
    /\ values_available = <<>>
    /\ iter = 0
    /\ history = <<>>
    /\ err = ""
    /\ table = NoTable
    /\ normalized = <<>>
    /\ df_to_show = NoTable

\* the handler from line 61 on: parse_articles(raw_text), then the cleaning,
\* load_and_flatten and process_dataframe
Init ==
    /\ call = "parse_articles"
    /\ raw_text \in ArticleTexts
    /\ records = <<>>
    /\ InitCommon

\* parse_segment(raw_text)
InitSegment ==
    /\ call = "parse_segment"
    /\ raw_text \in SegmentTexts
    /\ records = <<>>
    /\ InitCommon

\* split_into_segments(raw_text)
InitSplit ==
    /\ call = "split_into_segments"
    /\ raw_text \in SplitTexts
    /\ records = <<>>
    /\ InitCommon

\* parse_segment(raw_text), on segments with lines that carry the
\* sub-section number and no letter
InitMarker ==
    /\ call = "parse_segment"
    /\ raw_text \in MarkerTexts
    /\ records = <<>>
    /\ InitCommon

\* normalize_line(raw_text)
InitNorm ==
    /\ call = "normalize_line"
    /\ raw_text \in NormTexts
    /\ records = <<>>
    /\ InitCommon

\* load_and_flatten(records)
InitFlatten ==
    /\ call = "load_and_flatten"
    /\ raw_text = <<>>
    /\ records \in SeqsUpTo(FlattenRecords, MaxRecords)
    /\ InitCommon

\* ------------------------------------------------------------------------
\* Actions
\* ------------------------------------------------------------------------
\* segments = split_into_segments(raw_text)
SplitIntoSegments ==
    /\ pc = "call"
    /\ call \in {"parse_articles", "split_into_segments"}
    /\ segments' = split_into_segments(raw_text)
    /\ pc' = IF call = "parse_articles" THEN "segments" ELSE "returned"
    /\ UNCHANGED <<df_to_show, normalized, call, raw_text, seg_idx, locals, records, err, table>>

\* if not segments: raise ValueError
RaiseNoStructure ==
    /\ pc = "segments"
    /\ segments = <<>>
    /\ err' = "ValueError"
    /\ pc' = "raised"
    /\ UNCHANGED <<df_to_show, normalized, call, raw_text, segments, seg_idx, locals, records, table>>

\* the segment parse_segment is called on
CurrentSegment ==
    IF call = "parse_segment" THEN raw_text ELSE segments[seg_idx + 1]

\* pending_values kept from the previous call
StalePending == pending_values

\* pending_values: List[str] = []
FreshPending == <<>>

\* mapping kept from the previous call
StaleMapping == mapping

\* mapping: Dict[str, str] = {}
FreshMapping == <<>>

\* parse_segment up to the while loop
BeginSegment ==
    /\ IF call = "parse_segment"
       THEN pc = "call"
       ELSE pc = "segments" /\ seg_idx < Len(segments)
    /\ lines' = DropHeader(SegmentLines(CurrentSegment))
    /\ mapping' = FreshMapping
    /\ pack_mapping' = <<>>
    /\ pending_values' = FreshPending
    /\ i' = 0
    /\ key_group' = <<>>
    /\ val_group' = <<>>
    /\ values_available' = <<>>
    /\ iter' = 0
    /\ history' = <<>>
    /\ pc' = "loop"
    /\ UNCHANGED <<df_to_show, normalized, call, raw_text, segments, seg_idx, records, err, table>>

CountIteration == iter' = IF iter <= Len(lines) THEN iter + 1 ELSE iter

\* the line is a PACKSTÜCKE header: skip it
SkipPackHeader ==
    /\ pc = "loop"
    /\ i < Len(lines)
    /\ PACK_HEADER_RE_match(lines[i + 1])
    /\ i' = i + 1
    /\ CountIteration
    /\ UNCHANGED <<df_to_show, normalized, call, raw_text, pc, segments, seg_idx, lines, mapping,
                   pack_mapping, pending_values, key_group, val_group,
                   values_available, history, records, err, table>>

\* no keys found: collect non-key lines as pending values
CollectPending ==
    /\ pc = "loop"
    /\ i < Len(lines)
    /\ ~PACK_HEADER_RE_match(lines[i + 1])
    /\ ~KEY_RE_match(lines[i + 1])
    /\ key_group' = <<>>
    /\ pending_values' = pending_values \o SubSeq(lines, i + 1, ValueRunEnd(lines, i))
    /\ i' = ValueRunEnd(lines, i)
    /\ CountIteration
    /\ UNCHANGED <<df_to_show, normalized, call, raw_text, pc, segments, seg_idx, lines, mapping,
                   pack_mapping, val_group, values_available, history,
                   records, err, table>>

\* a key group: collect its keys and values, map keys to values
AssignGroup ==
    /\ pc = "loop"
    /\ i < Len(lines)
    /\ ~PACK_HEADER_RE_match(lines[i + 1])
    /\ KEY_RE_match(lines[i + 1])
    /\ LET j    == KeyRunEnd(lines, i)
           e    == ValueRunEnd(lines, j)
           kg   == [k \in 1..(j - i) |-> KeyToken(lines[i + k])]
           vg   == SubSeq(lines, j + 1, e)
           va   == ValuesAvailable(pending_values, vg)
           maps == MapGroup([mapping |-> mapping, pack_mapping |-> pack_mapping],
                            kg, va)
       IN  /\ key_group' = kg
           /\ val_group' = vg
           /\ values_available' = va
           /\ mapping' = maps.mapping
           /\ pack_mapping' = maps.pack_mapping
           /\ pending_values' = Leftover(va, kg)
           /\ i' = e
           /\ history' = Append(history, [keys |-> kg, values |-> va])
    /\ CountIteration
    /\ UNCHANGED <<df_to_show, normalized, call, raw_text, pc, segments, seg_idx, lines, records, err,
                   table>>

\* one iteration of 'while i < len(lines)'
WhileBody == SkipPackHeader \/ CollectPending \/ AssignGroup

\* the loop is over: build article_obj and return it
EndSegment ==
    /\ pc = "loop"
    /\ i >= Len(lines)
    /\ records' = Append(records, ArticleObj(mapping, pack_mapping, pending_values))
    /\ seg_idx' = IF call = "parse_articles" THEN seg_idx + 1 ELSE seg_idx
    /\ pc' = IF call = "parse_articles" THEN "segments" ELSE "returned"
    /\ UNCHANGED <<df_to_show, normalized, call, raw_text, segments, locals, err, table>>

\* return [parse_segment(seg) for seg in segments]
ReturnArticles ==
    /\ pc = "segments"
    /\ segments # <<>>
    /\ seg_idx >= Len(segments)
    /\ pc' = "returned"
    /\ UNCHANGED <<df_to_show, normalized, call, raw_text, segments, seg_idx, locals, records, err, table>>

\* articles = [{k: v for k, v in d.items() if k != "_UNMAPPED_VALUES"} ...]
CleanArticles ==
    /\ pc = "returned"
    /\ call = "parse_articles"
    /\ records' = [r \in 1..Len(records) |-> CleanRecord(records[r])]
    /\ pc' = "cleaned"
    /\ UNCHANGED <<df_to_show, normalized, call, raw_text, segments, seg_idx, locals,
                   err, table>>

\* load_and_flatten(records): called by the handler on the cleaned Records,
\* or called on its own
LoadAndFlatten ==
    /\ IF call = "load_and_flatten" THEN pc = "call" ELSE pc = "cleaned"
    /\ IF load_and_flatten_raises(records)
       THEN err' = "AttributeError" /\ pc' = "raised" /\ table' = table
       ELSE err' = err /\ pc' = "flattened" /\ table' = load_and_flatten(records)
    /\ UNCHANGED <<df_to_show, normalized, call, raw_text, segments, seg_idx, locals,
                   records>>

\* clean_df = process_dataframe(clean_df): the name is defined nowhere, the
\* call raises NameError; clean_df keeps the value of line 65 and line 68,
\* which would store it in df_to_show, is not reached
ProcessDataframe ==
    /\ pc = "flattened"
    /\ call = "parse_articles"
    /\ err' = "NameError"
    /\ pc' = "raised"
    /\ UNCHANGED <<df_to_show, normalized, call, raw_text, segments, seg_idx, locals,
                   records, table>>

\* normalize_line(raw_text)
NormalizeLine ==
    /\ pc = "call"
    /\ call = "normalize_line"
    /\ normalized' = <<normalize_line(raw_text)>>
    /\ pc' = "returned"
    /\ UNCHANGED <<df_to_show, call, raw_text, segments, seg_idx, locals, records, err, table>>

\* normalize_line on the value it returned
NormalizeAgain ==
    /\ pc = "returned"
    /\ call = "normalize_line"
    /\ Len(normalized) = 1
    /\ normalized' = Append(normalized, normalize_line(normalized[1]))
    /\ UNCHANGED <<df_to_show, call, raw_text, pc, segments, seg_idx, locals, records, err,
                   table>>

Next ==
    \/ SplitIntoSegments
    \/ RaiseNoStructure
    \/ BeginSegment
    \/ SkipPackHeader
    \/ CollectPending
    \/ AssignGroup
    \/ EndSegment
    \/ ReturnArticles
    \/ CleanArticles
    \/ LoadAndFlatten
    \/ ProcessDataframe

Spec == Init /\ [][Next]_vars

NextSegment ==
    \/ BeginSegment
    \/ SkipPackHeader
    \/ CollectPending
    \/ AssignGroup
    \/ EndSegment

SpecSegment == InitSegment /\ [][NextSegment]_vars

NextSplit == SplitIntoSegments

SpecSplit == InitSplit /\ [][NextSplit]_vars

SpecMarker == InitMarker /\ [][NextSegment]_vars

NextFlatten == LoadAndFlatten

SpecFlatten == InitFlatten /\ [][NextFlatten]_vars

NextNorm ==
    \/ NormalizeLine
    \/ NormalizeAgain

SpecNorm == InitNorm /\ [][NextNorm]_vars

\* ------------------------------------------------------------------------
\* Properties
\* ------------------------------------------------------------------------
\* the Record parse_segment returned last
LastRecord == records[Len(records)]

\* parse_segment has returned and its locals are those of the returned call
SegmentReturned == pc \in {"segments", "returned"} /\ records # <<>>

\* C1: parse_segment terminates on every segment text: every iteration of
\* its outer loop advances the cursor, so the cursor reaches the end of the
\* line list and a Record is returned.
C1_EveryIterationAdvances == [][WhileBody => i' > i]_vars

\* C2: with no occurrence of the section header parse_articles raises
\* ValueError and returns no Record; with at least one occurrence it does not
\* raise it and returns one Record per segment, in segment order.  A call of
\* parse_segment that has run more iterations than its segment has lines
\* repeats a state of the loop and never returns.
C2_RaisesOrReturnsAll ==
    (call = "parse_articles" /\ pc \in {"segments", "loop", "returned", "raised"}) =>
        IF SEGMENT_HEADER_RE_finditer(raw_text, 1) = <<>>
        THEN /\ records = <<>>
             /\ pc \in {"segments", "raised"}
             /\ pc = "raised" => err = "ValueError"
        ELSE /\ err # "ValueError"
             /\ pc = "loop" => iter <= Len(lines)
             /\ pc = "returned" => Len(records) = Len(segments)

\* the concatenation of the strings of ss
RECURSIVE Concat(_)
Concat(ss) == IF ss = <<>> THEN <<>> ELSE ss[1] \o Concat(Tail(ss))

\* C3: with N occurrences of the section header split_into_segments returns
\* N segments; segment k runs from the start of occurrence k up to the start
\* of occurrence k+1, the last one to the end of the input; with N = 0 the
\* result is empty.
C3_OneSegmentPerOccurrence ==
    (call = "split_into_segments" /\ pc = "returned") =>
        LET starts == SEGMENT_HEADER_RE_finditer(raw_text, 1)
            N      == Len(starts)
        IN  /\ Len(segments) = N
            /\ \A k \in 1..N :
                  /\ HeaderEndAt(segments[k], 1) > 0
                  /\ Len(segments[k]) =
                        (IF k < N THEN starts[k + 1] ELSE Len(raw_text)) - starts[k]
            /\ N > 0 =>
                  Concat(segments) = SubSeq(raw_text, starts[1] + 1, Len(raw_text))

C3_Witness ==
    /\ call = "split_into_segments"
    /\ pc = "returned"
    /\ Len(segments) = 2
    /\ SEGMENT_HEADER_RE_finditer(raw_text, 1)[1] > 0
    /\ Len(segments[1]) > Len(HeaderLiteral)
    /\ Len(segments[1]) + Len(segments[2]) < Len(raw_text)

\* the mapping a key with this code is routed to
BucketOf(code) ==
    IF Len(code) >= 4 /\ LowerStr(SubSeq(code, 1, 4)) = <<"1","7",".","1">>
    THEN pack_mapping ELSE mapping

\* key idx of key_group is the last key of the group with its code's bucket
\* and its label
LastOfLabel(idx) ==
    \A later \in (idx + 1)..(Len(key_group) - 1) :
        \/ key_group[later + 1][2] # key_group[idx + 1][2]
        \/ BucketOf(key_group[later + 1][1]) # BucketOf(key_group[idx + 1][1])

\* the keys of the last key group hold the available values in order, and ""
\* beyond them
GroupAssigned ==
    \A idx \in 0..(Len(key_group) - 1) :
        LET code  == key_group[idx + 1][1]
            label == key_group[idx + 1][2]
        IN  /\ label \in DictKeys(BucketOf(code))
            /\ LastOfLabel(idx) =>
                  DictGet(BucketOf(code), label) =
                      IF idx < Len(values_available)
                      THEN values_available[idx + 1] ELSE <<>>

\* C4: a key group of K keys with V < K available values: the first V keys
\* receive the values in order, the other K-V keys the empty string,
\* pending_values is empty afterwards and nothing is raised.
C4_FewerValuesThanKeys ==
    (pc \in {"loop", "returned"} /\ Len(values_available) < Len(key_group)) =>
        /\ GroupAssigned
        /\ pending_values = <<>>
        /\ err = ""

C4_Witness ==
    /\ pc = "returned"
    /\ Len(key_group) = 3
    /\ Len(values_available) = 2
    /\ val_group # values_available
    /\ key_group[1][2] # key_group[3][2]
    /\ DictGet(BucketOf(key_group[3][1]), key_group[3][2]) = <<>>
    /\ DictGet(BucketOf(key_group[1][1]), key_group[1][2]) = values_available[1]

\* the group mapped last by the current call of parse_segment
LastGroup == history[Len(history)]

\* the mapping of a Record a key with this code is routed to
RecordBucket(rec, code) ==
    IF Len(code) >= 4 /\ LowerStr(SubSeq(code, 1, 4)) = <<"1","7",".","1">>
    THEN (IF PACK \in DOMAIN rec THEN rec[PACK] ELSE <<>>)
    ELSE rec[MAIN]

\* the value lines that follow the value run of the last key line
TrailingValues ==
    LET last == SetMax({k \in 1..Len(lines) : KEY_RE_match(lines[k])})
    IN  SelectSeq(SubSeq(lines, ValueRunEnd(lines, last) + 1, Len(lines)),
                  IsValueLine)

\* the keys kg hold the values va in order in the Record rec
AssignedInOrder(rec, kg, va) ==
    \A idx \in 0..(Len(kg) - 1) :
        LET code  == kg[idx + 1][1]
            label == kg[idx + 1][2]
        IN  /\ label \in DictKeys(RecordBucket(rec, code))
            /\ (\A later \in (idx + 2)..Len(kg) :
                    \/ kg[later][2] # label
                    \/ RecordBucket(rec, kg[later][1]) # RecordBucket(rec, code))
               => DictGet(RecordBucket(rec, code), label)
                     = IF idx < Len(va) THEN va[idx + 1] ELSE <<>>

\* C5 as stated: a key group of K keys with V > K available values and no
\* later key group: the first K values go to the K keys in order and the
\* unmapped list of the returned Record is exactly the other V-K values.
C5_UnmappedIsExactlyLeftover ==
    (call = "parse_segment" /\ pc = "returned" /\ history # <<>>
       /\ Len(LastGroup.values) > Len(LastGroup.keys)) =>
        /\ AssignedInOrder(LastRecord, LastGroup.keys, LastGroup.values)
        /\ UNMAPPED \in DOMAIN LastRecord
        /\ LastRecord[UNMAPPED] =
              SubSeq(LastGroup.values, Len(LastGroup.keys) + 1, Len(LastGroup.values))

\* C5, amended: a key group of K keys with V > K available values and no
\* later key group: the first K values go to the K keys in order, and the
\* unmapped list of the returned Record is the other V-K values in their
\* order, followed by the value lines that come after a later sub-section
\* header line.
C5_UnmappedStartsWithLeftover ==
    (call = "parse_segment" /\ pc = "returned" /\ history # <<>>
       /\ Len(LastGroup.values) > Len(LastGroup.keys)) =>
        /\ AssignedInOrder(LastRecord, LastGroup.keys, LastGroup.values)
        /\ UNMAPPED \in DOMAIN LastRecord
        /\ LastRecord[UNMAPPED] =
              SubSeq(LastGroup.values, Len(LastGroup.keys) + 1, Len(LastGroup.values))
              \o TrailingValues

C5_Witness ==
    /\ call = "parse_segment"
    /\ pc = "returned"
    /\ history # <<>>
    /\ Len(LastGroup.keys) = 1
    /\ Len(LastGroup.values) = 2
    /\ LastGroup.values[1] # LastGroup.values[2]
    /\ TrailingValues # <<>>
    /\ Len(LastRecord[UNMAPPED]) = 2
    /\ LastRecord[UNMAPPED][1] = LastGroup.values[2]

\* the 1-based positions of the key lines of the segment being parsed
KeyLines == {k \in 1..Len(lines) : KEY_RE_match(lines[k])}

\* the code of a key line begins with the sub-section prefix
HasPackPrefix(line) ==
    LET code == KEY_RE_group1(line)
    IN  Len(code) >= 4 /\ LowerStr(SubSeq(code, 1, 4)) = <<"1","7",".","1">>

\* C6: in a returned Record the label of a key line is in packages if the
\* code begins with "17.1" and in main otherwise, every label of packages
\* and of main comes from such a key line, and the Record has a packages
\* entry exactly if the segment has a key line with that prefix.
C6_RoutingByPrefix ==
    (call = "parse_segment" /\ pc = "returned") =>
        LET packs == IF PACK \in DOMAIN LastRecord THEN LastRecord[PACK] ELSE <<>>
        IN  /\ \A k \in KeyLines :
                  IF HasPackPrefix(lines[k])
                  THEN KeyLabel(lines[k]) \in DictKeys(packs)
                  ELSE KeyLabel(lines[k]) \in DictKeys(LastRecord[MAIN])
            /\ \A label \in DictKeys(packs) :
                  \E k \in KeyLines :
                      HasPackPrefix(lines[k]) /\ KeyLabel(lines[k]) = label
            /\ \A label \in DictKeys(LastRecord[MAIN]) :
                  \E k \in KeyLines :
                      ~HasPackPrefix(lines[k]) /\ KeyLabel(lines[k]) = label
            /\ (PACK \in DOMAIN LastRecord)
                  <=> (\E k \in KeyLines : HasPackPrefix(lines[k]))

C6_Witness ==
    /\ call = "parse_segment"
    /\ pc = "returned"
    /\ PACK \in DOMAIN LastRecord
    /\ LastRecord[MAIN] # <<>>
    /\ \A k \in 1..Len(lines) : ~PACK_HEADER_RE_match(lines[k])
    /\ HasPackPrefix(lines[1])
    /\ ~HasPackPrefix(lines[Len(lines)])
    /\ KEY_RE_match(lines[Len(lines)])

\* C7: load_and_flatten returns a Table for every list of Records, also for
\* Records with an unmapped list as parse_segment returns them: the unmapped
\* entry is dropped, it adds no column and no error.
C7_FlattenDropsUnmapped ==
    (call = "load_and_flatten" /\ pc \in {"flattened", "raised"}) =>
        /\ err = ""
        /\ Len(table.rows) = Len(records)
        /\ \A r \in 1..Len(table.rows) :
              DictKeys(table.rows[r]) \subseteq
                  DictKeys(records[r][MAIN])
                  \cup (IF PACK \in DOMAIN records[r]
                        THEN DictKeys(records[r][PACK]) ELSE {})

\* the labels of main and packages of a Record
LabelsOf(rec) ==
    DictKeys(rec[MAIN])
    \cup (IF PACK \in DOMAIN rec THEN DictKeys(rec[PACK]) ELSE {})

\* C8: load_and_flatten returns one row per Record in input order, and the
\* columns are the union of the labels of main and packages of all Records;
\* a row has no cell for a label its Record lacks.
C8_RowsAndColumns ==
    pc = "flattened" =>
        /\ Len(table.rows) = Len(records)
        /\ \A r \in 1..Len(records) :
              /\ DictKeys(table.rows[r]) = LabelsOf(records[r])
              /\ \A label \in DictKeys(records[r][MAIN]) :
                    label \notin DictKeys(RecordBucket(records[r], <<"1","7",".","1">>))
                    => DictGet(table.rows[r], label) = DictGet(records[r][MAIN], label)
        /\ {table.columns[k] : k \in 1..Len(table.columns)}
              = UNION {LabelsOf(records[r]) : r \in 1..Len(records)}
        /\ \A k1, k2 \in 1..Len(table.columns) :
              table.columns[k1] = table.columns[k2] => k1 = k2

C8_Witness ==
    /\ pc = "flattened"
    /\ Len(table.rows) = 2
    /\ table.rows[1] # <<>>
    /\ table.rows[2] # <<>>
    /\ DictKeys(table.rows[1]) # DictKeys(table.rows[2])
    /\ Len(table.columns) = 2

\* the value lines of the segment being parsed
ValueLines == {lines[k] : k \in {n \in 1..Len(lines) : IsValueLine(lines[n])}}

\* C9: after parse_segment returns, the label of every key line is a key of
\* main or of packages, as routed, and every stored value is the text of a
\* value line of the segment or the empty string.
C9_NoKeyDropped ==
    (call = "parse_segment" /\ pc = "returned") =>
        /\ \A k \in KeyLines :
              LET bucket == RecordBucket(LastRecord, KEY_RE_group1(lines[k]))
              IN  /\ KeyLabel(lines[k]) \in DictKeys(bucket)
                  /\ DictGet(bucket, KeyLabel(lines[k])) \in ValueLines \cup {<<>>}
        /\ \A n \in DOMAIN LastRecord \ {UNMAPPED} :
              \A k \in 1..Len(LastRecord[n]) :
                  LastRecord[n][k][2] \in ValueLines \cup {<<>>}

C9_Witness ==
    /\ call = "parse_segment"
    /\ pc = "returned"
    /\ Len(history) = 1
    /\ Len(LastGroup.keys) = 3
    /\ Len(LastGroup.values) = 1
    /\ Len(LastRecord[MAIN]) = 2
    /\ PACK \in DOMAIN LastRecord
    /\ LastRecord[MAIN][1][2] # <<>>
    /\ LastRecord[MAIN][2][2] = <<>>
    /\ LastRecord[MAIN][2][1] = <<"1","7","b">>

\* C10: parse_articles keeps no state across segments: the Record at
\* position k of its result is parse_segment applied to segment k alone, so
\* values left pending at the end of one segment never reach a key of the
\* next.
C10_SegmentsIndependent ==
    (call = "parse_articles" /\ pc \in {"segments", "loop", "returned"}) =>
        /\ Len(records) <= Len(segments)
        /\ \A k \in 1..Len(records) : records[k] = parse_segment(segments[k])

C10_Witness ==
    /\ call = "parse_articles"
    /\ pc = "returned"
    /\ Len(records) = 2
    /\ UNMAPPED \in DOMAIN records[1]
    /\ Len(records[2][MAIN]) = 1
    /\ records[2][MAIN][1][2] = <<>>

\* C11: parse_segment keeps no state from one call to the next: calls on the
\* same segment text, with calls on other segments in between, return
\* Records with the same main, packages and unmapped contents
C11_SameSegmentSameRecord ==
    pc \in {"segments", "loop", "returned"} =>
        \A j, k \in 1..Len(records) :
            segments[j] = segments[k] => records[j] = records[k]

\* the first and the third call were on the same text, the second on another
\* one that gave another Record
C11_Witness ==
    /\ pc = "returned"
    /\ Len(records) = 3
    /\ segments[1] = segments[3]
    /\ segments[2] # segments[1]
    /\ records[2] # records[1]
    /\ records[3] = records[1]

\* the number of leading characters of s that are in S
LeadingRun(s, S) == SetMax({n \in 0..Len(s) : \A k \in 1..n : s[k] \in S})

\* the number of trailing characters of s that are in S
TrailingRun(s, S) ==
    SetMax({n \in 0..Len(s) : \A k \in (Len(s) - n + 1)..Len(s) : s[k] \in S})

\* s without at most n of its leading and n of its trailing characters of S
TrimmedBy(s, S, n) ==
    LET l == IF LeadingRun(s, S) < n THEN LeadingRun(s, S) ELSE n
        r == IF TrailingRun(s, S) < n THEN TrailingRun(s, S) ELSE n
    IN  IF l + r >= Len(s) THEN <<>> ELSE SubSeq(s, l + 1, Len(s) - r)

\* s without its leading and trailing whitespace
Unspaced(s) == TrimmedBy(s, Whitespace, Len(s))

\* the line '"  Mengeneinheit  "'
QuotedMengeneinheit ==
    <<"\"", " ", " ">> \o Mengeneinheit \o <<" ", " ", "\"">>

\* normalize_line has returned
NormalizeReturned == call = "normalize_line" /\ pc = "returned"

\* C12 as stated: normalize_line removes the surrounding whitespace and one
\* layer of enclosing quotes, that is one quote character at most from each
\* end, and then the whitespace inside them
C12_OneQuoteLayer ==
    NormalizeReturned =>
        normalized[1] = Unspaced(TrimmedBy(Unspaced(raw_text), {"\""}, 1))

\* C12: normalize_line removes the surrounding whitespace, then every
\* leading and every trailing quote character, however many there are, then
\* the whitespace this uncovers; '"  Mengeneinheit  "' gives 'Mengeneinheit'
C12_AllQuoteLayers ==
    NormalizeReturned =>
        /\ normalized[1] =
               Unspaced(TrimmedBy(Unspaced(raw_text), {"\""}, Len(raw_text)))
        /\ raw_text = QuotedMengeneinheit => normalized[1] = Mengeneinheit

\* a line wrapped in two layers of quotes lost both
C12_Witness ==
    /\ NormalizeReturned
    /\ raw_text = <<"\"", "\"", "x", "\"", "\"">>
    /\ normalized[1] = <<"x">>

\* C13: a Record returned by parse_segment always has the main mapping, empty
\* when the segment has no key line; it has the unmapped entry exactly when
\* pending_values is non-empty at the end of the loop, and that entry is then
\* the non-empty pending_values, never an empty list.
C13_MainAlwaysUnmappedIffPending ==
    (call = "parse_segment" /\ pc = "returned") =>
        /\ MAIN \in DOMAIN LastRecord
        /\ LastRecord[MAIN] = mapping
        /\ KeyLines = {} => LastRecord[MAIN] = <<>>
        /\ (UNMAPPED \in DOMAIN LastRecord) <=> (pending_values # <<>>)
        /\ UNMAPPED \in DOMAIN LastRecord =>
              /\ LastRecord[UNMAPPED] # <<>>
              /\ LastRecord[UNMAPPED] = pending_values

\* a segment of value lines only: main is empty and unmapped holds the lines
C13_Witness ==
    /\ call = "parse_segment"
    /\ pc = "returned"
    /\ Len(lines) = 2
    /\ KeyLines = {}
    /\ LastRecord[MAIN] = <<>>
    /\ UNMAPPED \in DOMAIN LastRecord
    /\ LastRecord[UNMAPPED] = lines

\* the packages mapping of a Record, empty when the Record has none
PackagesOf(rec) == IF PACK \in DOMAIN rec THEN rec[PACK] ELSE <<>>

\* the keys of a dict in insertion order
KeyOrder(d) == [k \in 1..Len(d) |-> d[k][1]]

\* C14: load_and_flatten writes the entries of main first and those of
\* packages after them: a label that is in both gets the value of packages
\* in the row, every other label its only value, and the row of a Record is
\* made from that Record alone, so a collision changes no other row.
C14_PackagesOverridesMain ==
    pc = "flattened" =>
        \A r \in 1..Len(records) :
            LET main == records[r][MAIN]
                pack == PackagesOf(records[r])
                row  == table.rows[r]
            IN  /\ KeyOrder(row) =
                       KeyOrder(main)
                       \o SelectSeq(KeyOrder(pack),
                                    LAMBDA l : l \notin DictKeys(main))
                /\ \A label \in DictKeys(pack) :
                       DictGet(row, label) = DictGet(pack, label)
                /\ \A label \in DictKeys(main) \ DictKeys(pack) :
                       DictGet(row, label) = DictGet(main, label)

\* a Record with one label in main and in packages, with different values:
\* the cell has the value of packages
C14_Witness ==
    /\ pc = "flattened"
    /\ Len(records) = 1
    /\ \E label \in DictKeys(records[1][MAIN]) \cap DictKeys(PackagesOf(records[1])) :
          /\ DictGet(records[1][MAIN], label) # DictGet(records[1][PACK], label)
          /\ DictGet(records[1][MAIN], label) # <<>>
          /\ DictGet(table.rows[1], label) = DictGet(records[1][PACK], label)

\* the values of a dict
DictValues(d) == {d[k][2] : k \in 1..Len(d)}

\* the line has the sub-section number and no letter after it, and is not a
\* sub-section header: "17.1" alone or followed by other text
IsBareNumber(line) ==
    /\ StartsWith(line, <<"1","7",".","1">>)
    /\ IF Len(line) = 4 THEN TRUE ELSE IsSpace(line[5])
    /\ ~PACK_HEADER_RE_match(line)

\* C15: a line with the sub-section number and no letter suffix is a marker
\* only: parse_segment never collects it as a value, and its text is never a
\* value of main, of packages or of unmapped.
C15_BareNumberNeverStored ==
    (call = "parse_segment" /\ pc \in {"loop", "returned"}) =>
        \A k \in 1..Len(lines) :
            IsBareNumber(lines[k]) =>
                /\ lines[k] \notin DictValues(mapping)
                /\ lines[k] \notin DictValues(pack_mapping)
                /\ \A n \in 1..Len(pending_values) : pending_values[n] # lines[k]
                /\ \A n \in 1..Len(values_available) :
                       values_available[n] # lines[k]

\* the texts of the sub-section header lines of the segment being parsed
PackHeaderTexts == {lines[k] : k \in {n \in 1..Len(lines) : PACK_HEADER_RE_match(lines[n])}}

\* the members of a sequence
Range(s) == {s[k] : k \in 1..Len(s)}

\* the labels and the values of a dict
DictTexts(d) == DictKeys(d) \cup DictValues(d)

\* C16: parse_segment skips a sub-section header line without adding it to
\* a group: in every state of the loop the line is neither a key of
\* key_group nor a member of val_group, values_available or pending_values,
\* and in the returned Record its text is neither a label nor a value of
\* main, packages or unmapped.
C16_PackHeaderSkipped ==
    (call = "parse_segment" /\ pc \in {"loop", "returned"}) =>
        /\ \A k \in 1..Len(key_group) :
               /\ key_group[k][1] \notin PackHeaderTexts
               /\ key_group[k][2] \notin PackHeaderTexts
        /\ Range(val_group) \cap PackHeaderTexts = {}
        /\ Range(values_available) \cap PackHeaderTexts = {}
        /\ Range(pending_values) \cap PackHeaderTexts = {}
        /\ DictTexts(mapping) \cap PackHeaderTexts = {}
        /\ DictTexts(pack_mapping) \cap PackHeaderTexts = {}
        /\ pc = "returned" =>
               /\ DictTexts(LastRecord[MAIN]) \cap PackHeaderTexts = {}
               /\ DictTexts(PackagesOf(LastRecord)) \cap PackHeaderTexts = {}
               /\ UNMAPPED \in DOMAIN LastRecord =>
                      Range(LastRecord[UNMAPPED]) \cap PackHeaderTexts = {}

\* a sub-section header between a key line and a value line: the key got no
\* value and the value line went to unmapped
C16_Witness ==
    /\ call = "parse_segment"
    /\ pc = "returned"
    /\ Len(lines) = 3
    /\ KEY_RE_match(lines[1])
    /\ PACK_HEADER_RE_match(lines[2])
    /\ IsValueLine(lines[3])
    /\ DictValues(LastRecord[MAIN]) = {<<>>}
    /\ UNMAPPED \in DOMAIN LastRecord
    /\ LastRecord[UNMAPPED] = <<lines[3]>>

\* the values a key group assigned to its keys: the first min(K, V) of its
\* available values, the keys beyond them being padded
AssignedBy(group) ==
    SubSeq(group.values, 1,
           IF Len(group.keys) < Len(group.values)
           THEN Len(group.keys) ELSE Len(group.values))

\* the values assigned to keys so far, in key-line order
AssignedSoFar == Concat([g \in 1..Len(history) |-> AssignedBy(history[g])])

\* the value lines before the cursor, in their order in the segment
ValueLinesRead == SelectSeq(SubSeq(lines, 1, i), IsValueLine)

\* C17: parse_segment consumes the value lines first in, first out, dropping
\* and duplicating none: between two iterations of the outer loop the values
\* assigned to keys so far, in key-line order without the padded keys,
\* followed by pending_values are the value lines read so far in their
\* order; the values available to a group end with the group's own value
\* run, the carried-over ones coming first; at return the assigned values
\* followed by unmapped are all the value lines of the segment.
C17_ValuesFirstInFirstOut ==
    (call = "parse_segment" /\ pc \in {"loop", "returned"}) =>
        /\ AssignedSoFar \o pending_values = ValueLinesRead
        /\ key_group # <<>> =>
               /\ LastGroup = [keys |-> key_group, values |-> values_available]
               /\ Len(val_group) <= Len(values_available)
               /\ SubSeq(values_available,
                         Len(values_available) - Len(val_group) + 1,
                         Len(values_available)) = val_group
               /\ GroupAssigned
        /\ pc = "returned" =>
               AssignedSoFar
               \o (IF UNMAPPED \in DOMAIN LastRecord
                   THEN LastRecord[UNMAPPED] ELSE <<>>)
               = SelectSeq(lines, IsValueLine)

\* two key groups: the second one was given the value the first one left
\* pending and then its own, and left its own to unmapped
C17_Witness ==
    /\ call = "parse_segment"
    /\ pc = "returned"
    /\ Len(history) = 2
    /\ Len(history[1].values) > Len(history[1].keys)
    /\ Len(val_group) = 1
    /\ values_available = Leftover(history[1].values, history[1].keys) \o val_group
    /\ val_group[1] # values_available[1]
    /\ UNMAPPED \in DOMAIN LastRecord
    /\ LastRecord[UNMAPPED] = val_group

\* the start of the first header occurrence of raw_text; len(raw_text) if
\* there is none
FirstHeaderStart ==
    LET starts == SEGMENT_HEADER_RE_finditer(raw_text, 1)
    IN  IF starts = <<>> THEN Len(raw_text) ELSE starts[1]

\* raw_text before the first header occurrence
BeforeFirstHeader == SubSeq(raw_text, 1, FirstHeaderStart)

\* raw_text from the first header occurrence on
FromFirstHeader == SubSeq(raw_text, FirstHeaderStart + 1, Len(raw_text))

\* the length of the segments before segment k
LengthBefore(k) == Len(Concat(SubSeq(segments, 1, k - 1)))

\* C18: the segments are contiguous and do not overlap: segment k is the part
\* of the raw text that starts where segment k-1 ended, the first one at the
\* first header occurrence, and together they are the raw text from the
\* first header occurrence on. The text before it is in no segment: the
\* segments are those of the text from the first header on, and every label
\* and value of a Record of parse_articles is a line of that text.
C18_SegmentsCoverFromFirstHeader ==
    (call = "parse_articles" /\ pc \in {"segments", "returned"}) =>
        LET first == FirstHeaderStart
            rest  == SubSeq(raw_text, first + 1, Len(raw_text))
            kept  == Range(SegmentLines(rest))
        IN  /\ rest = FromFirstHeader
            /\ Concat(segments) = rest
            /\ \A k \in 1..Len(segments) :
                   segments[k] =
                       SubSeq(raw_text, first + LengthBefore(k) + 1,
                              first + LengthBefore(k) + Len(segments[k]))
            /\ segments = split_into_segments(rest)
            /\ \A k \in 1..Len(records) :
                   /\ \A label \in LabelsOf(records[k]) :
                          \E line \in kept :
                              KEY_RE_match(line) /\ KeyLabel(line) = label
                   /\ \A value \in DictValues(records[k][MAIN])
                                   \cup DictValues(PackagesOf(records[k]))
                                   \cup (IF UNMAPPED \in DOMAIN records[k]
                                         THEN Range(records[k][UNMAPPED]) ELSE {}) :
                          value = <<>> \/ value \in kept

\* a key line and a value line before the first header: the only Record has
\* neither the label nor the value
C18_Witness ==
    /\ call = "parse_articles"
    /\ pc = "returned"
    /\ \E line \in Range(SegmentLines(BeforeFirstHeader)) :
           /\ KEY_RE_match(line)
           /\ \A k \in 1..Len(records) : KeyLabel(line) \notin LabelsOf(records[k])
    /\ \E line \in Range(SegmentLines(BeforeFirstHeader)) : IsValueLine(line)
    /\ Len(records) = 1
    /\ Len(records[1][MAIN]) = 1
    /\ DOMAIN records[1] = {MAIN}

\* a key of the key group kg has this label and is routed to packages (pack)
\* or to main (~pack)
RepeatsLabel(kg, label, pack) ==
    \E k \in 1..Len(kg) : kg[k][2] = label /\ (HasPackPrefix(kg[k][1]) <=> pack)

\* the key group this step of the loop maps, empty if it maps none
GroupOfStep == IF history' # history THEN key_group' ELSE <<>>

\* the labels of d that still hold "" after the step, unless the step's key
\* group has a key line with the label in this bucket
StaysEmpty(d, dNext, pack) ==
    \A label \in DictKeys(d) :
        (DictGet(d, label) = <<>> /\ ~RepeatsLabel(GroupOfStep, label, pack)) =>
            (label \in DictKeys(dNext) /\ DictGet(dNext, label) = <<>>)

\* C19: parse_segment never back-fills: a label that holds the empty string,
\* which only a key whose group ran out of values gets, holds it after every
\* later step of the call, unless the step maps a key group with a key line
\* of the same label in the same bucket.
C19_NeverBackFills ==
    [][(call = "parse_segment" /\ pc = "loop") =>
          /\ StaysEmpty(mapping, mapping', FALSE)
          /\ StaysEmpty(pack_mapping, pack_mapping', TRUE)]_vars

\* a key group without values, then a key group with more values than keys:
\* the key of the first still holds "" and the extra value is unmapped
C19_Witness ==
    /\ call = "parse_segment"
    /\ pc = "returned"
    /\ Len(history) = 2
    /\ history[1].values = <<>>
    /\ Len(history[2].values) > Len(history[2].keys)
    /\ ~RepeatsLabel(history[2].keys, history[1].keys[1][2], FALSE)
    /\ ~HasPackPrefix(history[1].keys[1][1])
    /\ DictGet(LastRecord[MAIN], history[1].keys[1][2]) = <<>>
    /\ UNMAPPED \in DOMAIN LastRecord

\* s begins or ends with a character of S
HasAtAnEnd(s, S) == s # <<>> /\ (s[1] \in S \/ s[Len(s)] \in S)

\* C20 as stated: normalize_line applied to its own result returns it
\* unchanged, and the result begins and ends with neither a whitespace nor a
\* quote character
C20_Idempotent ==
    call = "normalize_line" =>
        /\ Len(normalized) >= 1 =>
               ~HasAtAnEnd(normalized[1], Whitespace \cup {"\""})
        /\ Len(normalized) = 2 => normalized[2] = normalized[1]

\* C20: the result of normalize_line begins and ends with no whitespace
\* character. It can begin or end with a quote character; normalize_line
\* applied to the result returns it unchanged exactly when it does not, and a
\* shorter string when it does.
C20_IdempotentWithoutOuterQuote ==
    call = "normalize_line" =>
        /\ Len(normalized) >= 1 => ~HasAtAnEnd(normalized[1], Whitespace)
        /\ Len(normalized) = 2 =>
               /\ ~HasAtAnEnd(normalized[2], Whitespace)
               /\ IF HasAtAnEnd(normalized[1], {"\""})
                  THEN Len(normalized[2]) < Len(normalized[1])
                  ELSE normalized[2] = normalized[1]

\* a line that lost whitespace and quotes, and that the second call returned
\* as it was
C20_Witness ==
    /\ call = "normalize_line"
    /\ Len(normalized) = 2
    /\ HasAtAnEnd(raw_text, Whitespace)
    /\ HasAtAnEnd(Unspaced(raw_text), {"\""})
    /\ normalized[1] # <<>>
    /\ ~HasAtAnEnd(normalized[1], {"\""})
    /\ normalized[2] = normalized[1]

====
